---- MODULE Spec2Model ----
(***************************************************************************)
(* Bootstrap layer of the gym-management HTTP backend.                     *)
(*                                                                         *)
(* The repository holds five revisions of server.js.  Each is modelled,    *)
(* and the revision is part of the configuration chosen in Init:           *)
(*   "R1"  src/server.js:1-141           isConnected flag + gate           *)
(*   "R2"  src/server.js:143-358         startServer, always listens       *)
(*   "R3"  src/server.js:360-562         isProduction split                *)
(*   "R4"  src/unnamed/part_000:1-166    readyState guard + gate           *)
(*   "R5"  src/unnamed/part_000:168-379  isProduction split                *)
(*                                                                         *)
(* mongoose and express are libraries: mongoose is modelled by its         *)
(* connection readyState (0 disconnected, 1 connected, 2 connecting) and   *)
(* the set of connect() promises still pending; express by its rule that   *)
(* middleware runs in registration order, that next(err) skips to the next *)
(* four-argument middleware, and that its final handler answers when the   *)
(* stack is exhausted.  The synchronous part of a handler is one step:     *)
(* the event loop interleaves requests only at an await.                   *)
(***************************************************************************)
EXTENDS Integers, Sequences, FiniteSets, TLC

VARIABLES
    rev,         \* which revision of server.js is running
    env,         \* process.env: VERCEL, NODE_ENV, MONGO_URI
    startup,     \* position of the module's start-up code
    listening,   \* app.listen has been called
    exited,      \* process.exit(1) has been called
    isConnected, \* R1's module-level flag
    readyState,  \* mongoose.connections[0].readyState
    pending,     \* owners of the mongoose.connect promises not yet settled
    connString,  \* the URI the mongoose connection was opened with
    calls,       \* number of mongoose.connect calls made so far
    lastError,   \* the error the last failed connection routine threw
    req,         \* the requests, each with its position in the pipeline
    offer,       \* per request, the mounts whose router would handle it
                 \* and the routers it was handed to, in order
    uploadBaseEnv, \* process.env.UPLOAD_DIR
    disk,        \* the directories that exist
    denied,      \* the directories fs.mkdirSync fails to create
    log          \* one record per run of the directory set-up

vars == <<rev, env, startup, listening, exited, isConnected, readyState,
          pending, connString, calls, lastError, req, offer,
          uploadBaseEnv, disk, denied, log>>

\* The state of the server proper.
app == <<rev, env, startup, listening, exited, isConnected, readyState,
         pending, connString, calls, lastError, req>>

\* The state of the filesystem and of the directory set-up.
storage == <<uploadBaseEnv, disk, denied, log>>

config == <<rev, env>>

-----------------------------------------------------------------------------
(* Bounds *)

\* Requests the program is given.
MaxReq == 2

\* Requests that call the readiness gate directly.
MaxCallers == 4


Req == DOMAIN req

Revs == {"R1", "R2", "R3", "R4", "R5"}

GateRevs == {"R1", "R4"}

Envs == [VERCEL : BOOLEAN, NODE_ENV : {"development", "production"},
         MONGO_URI : BOOLEAN]

-----------------------------------------------------------------------------
(* Environment classification *)

isServerless(e) == e.VERCEL

isProduction(e) == e.NODE_ENV = "production" \/ e.VERCEL

\* The platform signal of the spec: the host sets VERCEL.
Ephemeral(e) == e.VERCEL

-----------------------------------------------------------------------------
(* The connection routines.  Each gives what the routine does up to its    *)
(* await: return at once, throw at once, or call mongoose.connect(uri).    *)

\* Mutant: the isConnected guard is missing.
connectToDatabaseNoGuard(flag, e) ==
    IF ~e.MONGO_URI THEN [do |-> "throw", uri |-> "none"]
    ELSE [do |-> "connect", uri |-> "env"]

\* Mutant: a missing MONGO_URI falls back to the local default.
connectToDatabaseDefault(flag, e) ==
    IF flag THEN [do |-> "return", uri |-> "none"]
    ELSE [do |-> "connect", uri |-> IF e.MONGO_URI THEN "env" ELSE "default"]

\* R1: connectToDatabase
connectToDatabase(flag, e) ==
    IF flag THEN [do |-> "return", uri |-> "none"]
    ELSE IF ~e.MONGO_URI THEN [do |-> "throw", uri |-> "none"]
    ELSE [do |-> "connect", uri |-> "env"]

\* R4: connectDatabase guarded by mongoose.connections[0].readyState
connectDatabaseReady(rs, e) ==
    IF rs # 0 THEN [do |-> "return", uri |-> "none"]
    ELSE [do |-> "connect", uri |-> IF e.MONGO_URI THEN "env" ELSE "undefined"]

\* R2, R3, R5: connectDatabase
connectDatabase(e) ==
    [do |-> "connect", uri |-> IF e.MONGO_URI THEN "env" ELSE "default"]

ConnectEntry ==
    CASE rev = "R1" -> connectToDatabase(isConnected, env)
      [] rev = "R4" -> connectDatabaseReady(readyState, env)
      [] OTHER -> connectDatabase(env)

\* mongoose: openUri rejects a URI that is not a string before it touches
\* the connection.
MongooseAccepts(uri) == uri # "undefined"

\* What the caller of the routine sees before any await settles.
Outcome(en) ==
    CASE en.do = "return" -> "return"
      [] en.do = "throw" -> "throw"
      [] en.do = "connect" /\ ~MongooseAccepts(en.uri) -> "throw"
      [] OTHER -> "await"

\* The routine's effect on mongoose when owner o calls it.
BeginConnect(o) ==
    LET en == ConnectEntry IN
    /\ calls' = IF en.do = "connect" THEN calls + 1 ELSE calls
    /\ IF Outcome(en) = "await"
       THEN /\ pending' = pending \cup {o}
            /\ readyState' = IF readyState = 1 THEN 1 ELSE 2
            /\ connString' = en.uri
            /\ UNCHANGED lastError
       ELSE /\ UNCHANGED <<pending, readyState, connString>>
            /\ lastError' = IF Outcome(en) = "throw" THEN "config" ELSE lastError

\* mongoose settles the promise of owner o.
Settle(o, ok) ==
    /\ pending' = pending \ {o}
    /\ readyState' = IF ok \/ readyState = 1 THEN 1
                     ELSE IF pending \ {o} = {} THEN 0 ELSE 2
    /\ lastError' = IF ok THEN lastError ELSE "connect"
    /\ UNCHANGED <<connString, calls>>

\* The connection state as the running revision reads it: R1 reads its
\* flag, the others mongoose's readyState.
ConnStatus ==
    CASE (rev = "R1" /\ isConnected) \/ (rev # "R1" /\ readyState = 1) ->
           "Connected"
      [] (rev = "R1" /\ pending # {}) \/ (rev # "R1" /\ readyState = 2) ->
           "Connecting"
      [] OTHER -> IF lastError = "none" THEN "Disconnected" ELSE "Failed"

-----------------------------------------------------------------------------
(* The request pipeline: the middleware stack in registration order.       *)

Mounts == {"whatsapp", "customers", "attendance", "reports",
           "legacyCustomers", "legacyAttendance", "legacyReports"}

\* The canonical mounts and the legacy /api mounts.
Canonical == {"whatsapp", "customers", "attendance", "reports"}
Legacy == Mounts \ Canonical

\* The legacy mounts in the order the source registers them.
LegacyOrder == <<"legacyCustomers", "legacyAttendance", "legacyReports">>

\* A registration with the legacy catch-alls ahead of the canonical mounts.
RoutesLegacyFirst ==
    <<"legacyCustomers", "legacyAttendance", "legacyReports",
      "whatsapp", "customers", "attendance", "reports">>

\* A registration with the legacy catch-alls in the opposite order.
RoutesReportsFirst ==
    <<"whatsapp", "customers", "attendance", "reports",
      "legacyReports", "legacyAttendance", "legacyCustomers">>

Routes == <<"whatsapp", "customers", "attendance", "reports",
            "legacyCustomers", "legacyAttendance", "legacyReports">>

MountPrefix(s) ==
    CASE s = "whatsapp" -> <<"api", "whatsapp">>
      [] s = "customers" -> <<"api", "customers">>
      [] s = "attendance" -> <<"api", "attendance">>
      [] s = "reports" -> <<"api", "reports">>
      [] OTHER -> <<"api">>

Parsers == <<"cors", "json", "urlencoded">>

\* A stack with the readiness gate registered ahead of everything else.
StackGateFirst(rv, e) ==
    <<"gate">> \o Parsers \o <<"log">> \o Routes
      \o <<"health", "notFound", "errorHandler">>

Stack(rv, e) ==
    CASE rv = "R1" ->
           Parsers \o <<"log", "root">> \o Routes
             \o <<"health", "notFound", "errorHandler3", "gate">>
      [] rv = "R2" ->
           Parsers \o <<"static", "log">> \o Routes
             \o <<"health", "testWhatsapp", "notFound", "errorHandler">>
      [] rv = "R3" ->
           Parsers \o (IF isProduction(e) THEN <<>> ELSE <<"static">>)
             \o <<"log">> \o Routes
             \o <<"health", "testWhatsapp", "notFound", "errorHandler">>
      [] rv = "R4" ->
           Parsers \o <<"static", "log">> \o Routes
             \o <<"health", "testWhatsapp", "notFound", "errorHandler", "gate">>
      [] OTHER ->
           Parsers \o (IF isProduction(e) THEN <<>> ELSE <<"static">>)
             \o <<"log">> \o Routes
             \o <<"root", "health", "testWhatsapp", "notFound", "errorHandler">>

IsPrefix(p, q) == Len(p) <= Len(q) /\ SubSeq(q, 1, Len(p)) = p

\* What stage s does with a request for path; takers are the stages that
\* have an answer for the request: the mounts whose router has a handler for
\* it, cors for a preflight OPTIONS request (the cors middleware answers it
\* with 204), static for a file that exists in the served directory.  The
\* requests modelled carry a well-formed body, so the body parsers pass
\* them on; the logger always does.
StageStep(s, path, takers) ==
    CASE s \in Mounts ->
           IF IsPrefix(MountPrefix(s), path) /\ s \in takers
           THEN "handler" ELSE "next"
      [] s = "cors" -> IF "cors" \in takers THEN "respond" ELSE "next"
      [] s = "static" ->
           IF IsPrefix(<<"uploads">>, path) /\ "static" \in takers
           THEN "respond" ELSE "next"
      [] s = "root" -> IF path = <<>> THEN "respond" ELSE "next"
      [] s = "health" -> IF path = <<"health">> THEN "respond" ELSE "next"
      [] s = "testWhatsapp" ->
           IF path = <<"test-whatsapp">> THEN "respond" ELSE "next"
      [] s = "notFound" -> "respond"
      [] s = "errorHandler3" -> "raise"
      [] s = "gate" -> "gate"
      [] OTHER -> "next"

\* express: the first four-argument middleware from position i on answers the
\* error err; with none left, express's final handler does.
RECURSIVE ErrWalk(_, _, _)
ErrWalk(stack, err, i) ==
    IF i > Len(stack)
    THEN [kind |-> "respond", at |-> "finalhandler", err |-> err]
    ELSE IF stack[i] = "errorHandler"
         THEN [kind |-> "respond", at |-> "errorHandler", err |-> err]
         ELSE ErrWalk(stack, err, i + 1)

\* The synchronous run of a request from position i to the first stage that
\* answers it or suspends it.
\* tried lists the routers the request was handed to, in order; logged
\* tells whether the logging middleware ran.
RECURSIVE Walk(_, _, _, _)
Walk(stack, path, takers, i) ==
    IF i > Len(stack)
    THEN [kind |-> "respond", at |-> "finalhandler", err |-> "none",
          tried |-> <<>>, logged |-> FALSE]
    ELSE LET s == stack[i]
             step == StageStep(s, path, takers)
             handed == IF s \in Mounts /\ IsPrefix(MountPrefix(s), path)
                       THEN <<s>> ELSE <<>>
         IN  CASE step = "next" ->
                    LET w == Walk(stack, path, takers, i + 1)
                    IN  [w EXCEPT !.tried = handed \o @,
                                  !.logged = (s = "log") \/ @]
               [] step = "raise" ->
                    LET w == ErrWalk(stack, "nostatus", i + 1)
                    IN  [kind |-> w.kind, at |-> w.at, err |-> w.err,
                         tried |-> <<>>, logged |-> FALSE]
               [] OTHER -> [kind |-> step, at |-> s, err |-> "none",
                            tried |-> handed, logged |-> FALSE]

Position(stack, s) == CHOOSE i \in 1..Len(stack) : stack[i] = s

\* The HTTP status a stage answers with; err is the raised error: "none",
\* "nostatus" (no status field) or "s403" (status 403).
StatusOf(at, err) ==
    CASE at = "notFound" -> 404
      [] at = "cors" -> 204
      [] at = "errorHandler" -> IF err = "s403" THEN 403 ELSE 500
      [] at = "finalhandler" ->
           IF err = "none" THEN 404 ELSE IF err = "s403" THEN 403 ELSE 500
      [] at = "gate" -> 500
      [] OTHER -> 200

\* The fields of the JSON body a stage answers an unanswered or failed
\* request with; express's final handler sends an HTML page, no JSON.
ErrorBody(rv, at) ==
    CASE at = "errorHandler" -> {"success", "message", "timestamp"}
      [] at = "notFound" ->
           IF rv = "R1" THEN {"success", "message"}
           ELSE {"success", "message", "availableRoutes"}
      [] at = "gate" -> {"success", "message"}
      [] OTHER -> {}

\* The availableRoutes list of the 404 body.
availableRoutes(rv) ==
    CASE rv = "R1" -> {}
      [] rv = "R5" ->
           {"/", "/health", "/test-whatsapp", "/api/whatsapp/status",
            "/api/customers", "/api/attendance", "/api/reports"}
      [] OTHER ->
           {"/health", "/test-whatsapp", "/api/whatsapp/status",
            "/api/customers", "/api/attendance", "/api/reports"}

\* The status field of the body /health answers with.
HealthStatus(at) == IF at = "health" THEN "OK" ELSE "none"

-----------------------------------------------------------------------------
(* Requests *)

Paths == { <<>>, <<"health">>, <<"api", "customers", "1">>,
           <<"api", "members">>, <<"api", "unknown-thing">> }

TakerSets == { {}, {"customers"}, {"legacyCustomers"},
               {"legacyAttendance", "legacyReports"} }

Errors == {"nostatus", "s403"}

NewReq == [stage |-> "new", path |-> <<>>, at |-> "none", status |-> 0,
           err |-> "none", gated |-> FALSE]

\* Requests are taken in order of their index.
NextNew(r) == req[r].stage = "new" /\ \A q \in Req : q < r => req[q].stage # "new"

Answered(rec, at, err) ==
    [rec EXCEPT !.stage = "done", !.at = at, !.err = err,
                !.status = StatusOf(at, err)]

\* The readiness gate's reaction to the connection routine: call next() when
\* it returned, answer 500 'Database connection failed' when it threw.
gate(rec, threw) ==
    IF threw THEN Answered(rec, "gate", "none")
    ELSE [rec EXCEPT !.stage = "passed", !.at = "gate"]

\* A routine that sets the flag whatever the attempt's result.
flagAfterAnyResult(rv, flag, ok) == IF rv = "R1" THEN TRUE ELSE flag

\* R1 sets its flag after a successful await; no other revision has one.
flagAfter(rv, flag, ok) == IF rv = "R1" /\ ok THEN TRUE ELSE flag

\* The gate middleware runs for request r (record rec) up to its await.
GateEnter(r, rec) ==
    LET out == Outcome(ConnectEntry)
        in == [rec EXCEPT !.gated = TRUE]
    IN
    /\ BeginConnect(r)
    /\ req' = [req EXCEPT ![r] =
                 IF out = "await"
                 THEN [in EXCEPT !.stage = "gateWait", !.at = "gate"]
                 ELSE gate(in, out = "throw")]
    /\ UNCHANGED <<config, startup, listening, exited, isConnected>>

\* A gate with no catch: a rejected attempt leaves the request unanswered.
GateSettleNoCatch(r, ok) ==
    /\ req[r].stage = "gateWait"
    /\ r \in pending
    /\ Settle(r, ok)
    /\ isConnected' = flagAfter(rev, isConnected, ok)
    /\ req' = IF ok THEN [req EXCEPT ![r] = gate(req[r], FALSE)] ELSE req
    /\ UNCHANGED <<config, startup, listening, exited>>

\* The connection attempt started for request r settles and the gate resumes.
GateSettle(r, ok) ==
    /\ req[r].stage = "gateWait"
    /\ r \in pending
    /\ Settle(r, ok)
    /\ isConnected' = flagAfter(rev, isConnected, ok)
    /\ req' = [req EXCEPT ![r] = gate(req[r], ~ok)]
    /\ UNCHANGED <<config, startup, listening, exited>>

\* The host or the listener hands request r to the app.
Arrive(r, path, takers) ==
    /\ NextNew(r)
    /\ startup # "load"
    /\ ~exited
    /\ listening \/ Ephemeral(env)
    /\ LET rec == [NewReq EXCEPT !.path = path]
           w == Walk(Stack(rev, env), path, takers, 1)
       IN  IF w.kind = "gate"
           THEN GateEnter(r, rec)
           ELSE /\ req' = [req EXCEPT ![r] =
                            IF w.kind = "handler"
                            THEN [rec EXCEPT !.stage = "handler", !.at = w.at]
                            ELSE Answered(rec, w.at, w.err)]
                /\ UNCHANGED <<config, startup, listening, exited, isConnected,
                               readyState, pending, connString, calls,
                               lastError>>

\* The handler group answers request r.
HandlerRespond(r) ==
    /\ req[r].stage = "handler"
    /\ ~exited
    /\ req' = [req EXCEPT ![r] = [@ EXCEPT !.stage = "done", !.status = 200]]
    /\ UNCHANGED <<config, startup, listening, exited, isConnected, readyState,
                   pending, connString, calls, lastError>>

\* A handler group that passes an error on after it has answered.
HandlerRaiseAfterRespond(r, err) ==
    /\ req[r].stage \in {"handler", "done"}
    /\ req[r].at \in Mounts
    /\ ~exited
    /\ LET stack == Stack(rev, env)
           w == ErrWalk(stack, err, Position(stack, req[r].at) + 1)
       IN  req' = [req EXCEPT ![r] = Answered(@, w.at, w.err)]
    /\ UNCHANGED <<config, startup, listening, exited, isConnected, readyState,
                   pending, connString, calls, lastError>>

\* The handler group raises an error for request r: next(err).
HandlerRaise(r, err) ==
    /\ req[r].stage = "handler"
    /\ ~exited
    /\ LET stack == Stack(rev, env)
           w == ErrWalk(stack, err, Position(stack, req[r].at) + 1)
       IN  req' = [req EXCEPT ![r] = Answered(@, w.at, w.err)]
    /\ UNCHANGED <<config, startup, listening, exited, isConnected, readyState,
                   pending, connString, calls, lastError>>

-----------------------------------------------------------------------------
(* Start-up *)

\* R1, R4: the module only exports the app.
LoadOnly ==
    /\ startup = "load"
    /\ rev \in GateRevs
    /\ startup' = "idle"
    /\ UNCHANGED <<config, listening, exited, isConnected, readyState, pending,
                   connString, calls, lastError, req>>

\* R2; R3, R5 when not production: startServer() up to its await.
StartServerCall ==
    /\ startup = "load"
    /\ rev = "R2" \/ (rev \in {"R3", "R5"} /\ ~isProduction(env))
    /\ BeginConnect(0)
    /\ startup' = "starting"
    /\ UNCHANGED <<config, listening, exited, isConnected, req>>

\* R3, R5 in production: connectDatabase().catch(console.error)
ConnectOnlyCall ==
    /\ startup = "load"
    /\ rev \in {"R3", "R5"} /\ isProduction(env)
    /\ BeginConnect(0)
    /\ startup' = "connectOnly"
    /\ UNCHANGED <<config, listening, exited, isConnected, req>>

\* Mutant: app.listen is not conditional on the connection having succeeded.
startServerListenAnyway(rv, e, ok) ==
    [listen |-> rv = "R2" \/ ~isProduction(e),
     exit |-> ~ok /\ (rv = "R2" \/ ~isProduction(e))]

\* startServer after its await: listen on success, process.exit(1) on failure.
startServer(rv, e, ok) ==
    [listen |-> ok /\ (rv = "R2" \/ ~isProduction(e)),
     exit |-> ~ok /\ (rv = "R2" \/ ~isProduction(e))]

StartServerSettle(ok) ==
    /\ startup = "starting"
    /\ 0 \in pending
    /\ Settle(0, ok)
    /\ LET t == startServer(rev, env, ok) IN
       /\ listening' = t.listen
       /\ exited' = t.exit
       /\ startup' = IF ok THEN "up" ELSE IF t.exit THEN "exited" ELSE "failed"
    /\ UNCHANGED <<config, isConnected, req>>

ConnectOnlySettle(ok) ==
    /\ startup = "connectOnly"
    /\ 0 \in pending
    /\ Settle(0, ok)
    /\ startup' = IF ok THEN "up" ELSE "failed"
    /\ UNCHANGED <<config, listening, exited, isConnected, req>>

-----------------------------------------------------------------------------
(* Storage: the upload root and the directories made at load *)

MaxRuns == 2

\* Paths are sequences of segments from the filesystem root.
TmpDir == <<"tmp">>
AppDir == <<"srv", "app">>
Cwd == <<"srv">>

\* UPLOAD_DIR: unset, an absolute path, a path relative to the working
\* directory.
Unset == [set |-> FALSE, abs |-> TRUE, segs |-> <<>>]
Overrides == { Unset,
               [set |-> TRUE, abs |-> TRUE, segs |-> <<"data", "up">>],
               [set |-> TRUE, abs |-> FALSE, segs |-> <<"up">>] }

\* path.resolve
resolve(o) == IF o.abs THEN o.segs ELSE Cwd \o o.segs

requiredDirs == <<"uploads", "whatsapp-auth", "logs">>

\* The revisions that make directories at load.
StorageRevs == {"R2", "R3", "R5"}

\* R2
uploadBase(e, o) ==
    IF o.set THEN resolve(o)
    ELSE IF isServerless(e) THEN TmpDir \o <<"gym_uploads">>
    ELSE AppDir \o <<"uploads">>

\* R3, R5
uploadsDir(e) ==
    IF isProduction(e) THEN <<"tmp", "uploads">> ELSE AppDir \o <<"uploads">>

\* The storage root the revision resolves.
storageRoot(rv, e, o) == IF rv = "R2" THEN uploadBase(e, o) ELSE uploadsDir(e)

\* The directory the set-up checks and makes for area dir.
dirPath(rv, e, o, dir) ==
    IF rv = "R2"
    THEN IF isServerless(e) THEN uploadBase(e, o) \o <<dir>>
         ELSE AppDir \o <<dir>>
    ELSE (IF isProduction(e) THEN <<"tmp">> ELSE AppDir) \o <<dir>>

AreaDirs(rv, e, o) ==
    [i \in 1..Len(requiredDirs) |-> dirPath(rv, e, o, requiredDirs[i])]

\* Whether /uploads is mounted, and the directory it serves.
StaticMounted(rv, e) == rv \in {"R2", "R4"} \/ ~isProduction(e)

staticUploadsPath(rv, e, o) ==
    IF rv = "R2" /\ isServerless(e) THEN uploadBase(e, o) \o <<"uploads">>
    ELSE AppDir \o <<"uploads">>

\* A directory and the directories above it.
Ancestors(p) == {SubSeq(p, 1, k) : k \in 1..Len(p)}

\* A loop body that calls mkdirSync without asking existsSync first.
ensureDirNoCheck(st, p, bad) ==
    IF p \in bad THEN [st EXCEPT !.threw = TRUE]
    ELSE [st EXCEPT !.disk = @ \cup Ancestors(p), !.made = @ \cup {p}]

\* The loop body: existsSync, then mkdirSync with recursive: true, which
\* throws for the directories it cannot make.
ensureDir(st, p, bad) ==
    IF p \in st.disk THEN st
    ELSE IF p \in bad THEN [st EXCEPT !.threw = TRUE]
    ELSE [st EXCEPT !.disk = @ \cup Ancestors(p), !.made = @ \cup {p}]

\* requiredDirs.forEach from place i on.  R2 catches inside the loop body
\* and goes on; R3 and R5 catch around the loop, which ends it.
RECURSIVE forEach(_, _, _, _, _)
forEach(rv, dirs, st, bad, i) ==
    IF i > Len(dirs) THEN st
    ELSE LET s1 == ensureDir([st EXCEPT !.checked = @ \cup {dirs[i]}],
                             dirs[i], bad)
             caught == [s1 EXCEPT !.threw = FALSE,
                                  !.warned = @ \cup {dirs[i]}]
         IN  IF s1.threw
             THEN IF rv = "R2" THEN forEach(rv, dirs, caught, bad, i + 1)
                  ELSE caught
             ELSE forEach(rv, dirs, s1, bad, i + 1)

\* The directory set-up runs when the module is loaded; a later run is the
\* next process started on the same filesystem.
createDirectories ==
    /\ rev \in StorageRevs
    /\ Len(log) < MaxRuns
    /\ LET st == forEach(rev, AreaDirs(rev, env, uploadBaseEnv),
                         [disk |-> disk, made |-> {}, checked |-> {},
                          warned |-> {}, threw |-> FALSE], denied, 1)
       IN  /\ disk' = st.disk
           /\ log' = Append(log, [before |-> disk, after |-> st.disk,
                                  made |-> st.made, checked |-> st.checked,
                                  warned |-> st.warned, raised |-> st.threw])
    /\ UNCHANGED <<uploadBaseEnv, denied, offer, app>>

NoStorage ==
    /\ uploadBaseEnv = Unset
    /\ disk = {}
    /\ denied = {}
    /\ log = <<>>

-----------------------------------------------------------------------------
(* The program: any revision under any environment *)

\* What the program's steps leave alone.
aside == <<offer, storage>>

NoOffer == [r \in Req |-> [takers |-> {}, tried |-> <<>>, logged |-> FALSE]]

Init ==
    /\ rev \in Revs
    /\ env \in Envs
    /\ startup = "load"
    /\ listening = FALSE
    /\ exited = FALSE
    /\ isConnected = FALSE
    /\ readyState = 0
    /\ pending = {}
    /\ connString = "none"
    /\ calls = 0
    /\ lastError = "none"
    /\ req = [r \in 1..MaxReq |-> NewReq]
    /\ offer = NoOffer
    /\ NoStorage

Next ==
    \/ LoadOnly /\ UNCHANGED aside
    \/ StartServerCall /\ UNCHANGED aside
    \/ ConnectOnlyCall /\ UNCHANGED aside
    \/ \E ok \in BOOLEAN : StartServerSettle(ok) /\ UNCHANGED aside
    \/ \E ok \in BOOLEAN : ConnectOnlySettle(ok) /\ UNCHANGED aside
    \/ \E r \in Req, path \in Paths, takers \in TakerSets :
          Arrive(r, path, takers) /\ UNCHANGED aside
    \/ \E r \in Req : HandlerRespond(r) /\ UNCHANGED aside
    \/ \E r \in Req, err \in Errors : HandlerRaise(r, err) /\ UNCHANGED aside

Spec == Init /\ [][Next]_vars

-----------------------------------------------------------------------------
(* The readiness gate called directly by concurrent requests (R1, R4) *)

GatePath == <<"api", "customers", "1">>

GateCall(r) ==
    /\ NextNew(r)
    /\ ~exited
    /\ GateEnter(r, [NewReq EXCEPT !.path = GatePath])

InitGate ==
    /\ rev \in GateRevs
    /\ env \in {e \in Envs : e.VERCEL /\ e.NODE_ENV = "production"}
    /\ startup = "idle"
    /\ listening = FALSE
    /\ exited = FALSE
    /\ isConnected = FALSE
    /\ readyState = 0
    /\ pending = {}
    /\ connString = "none"
    /\ calls = 0
    /\ lastError = "none"
    /\ req = [r \in 1..MaxCallers |-> NewReq]
    /\ offer = NoOffer
    /\ NoStorage

NextGate ==
    \/ \E r \in Req : GateCall(r) /\ UNCHANGED aside
    \/ \E r \in Req, ok \in BOOLEAN : GateSettle(r, ok) /\ UNCHANGED aside

SpecGate == InitGate /\ [][NextGate]_vars

\* Every connection attempt settles, and the event loop resumes the gate
\* that awaits it.
FairGate ==
    \A r \in 1..MaxCallers :
        WF_vars(\E ok \in BOOLEAN : GateSettle(r, ok) /\ UNCHANGED aside)

SpecGateFair == SpecGate /\ FairGate

-----------------------------------------------------------------------------
(* The program given one request, with the routers' answers recorded: they  *)
(* range over every subset of the mounts.  Routing is a function of the     *)
(* stack, the path and these answers alone.                                 *)

RoutePaths == Paths \cup { <<"api", "whatsapp", "status">>,
                           <<"api", "reports", "daily">>,
                           <<"test-whatsapp">>,
                           <<"uploads", "a.png">> }

\* The stages that would answer the request: any set of routers, the cors
\* middleware (a preflight OPTIONS request), the static mount (the file
\* exists).
RouteTakers == (SUBSET Mounts) \cup {{"cors"}, {"static"}}

RouteArrive(r, path, takers) ==
    /\ Arrive(r, path, takers)
    /\ LET w == Walk(Stack(rev, env), path, takers, 1)
       IN  offer' = [offer EXCEPT ![r] =
                       [takers |-> takers, tried |-> w.tried,
                        logged |-> w.logged]]
    /\ UNCHANGED storage

InitRoute ==
    /\ rev \in Revs
    /\ env \in Envs
    /\ startup = "load"
    /\ listening = FALSE
    /\ exited = FALSE
    /\ isConnected = FALSE
    /\ readyState = 0
    /\ pending = {}
    /\ connString = "none"
    /\ calls = 0
    /\ lastError = "none"
    /\ req = [r \in {1} |-> NewReq]
    /\ offer = NoOffer
    /\ NoStorage

NextRoute ==
    \/ LoadOnly /\ UNCHANGED aside
    \/ StartServerCall /\ UNCHANGED aside
    \/ ConnectOnlyCall /\ UNCHANGED aside
    \/ \E ok \in BOOLEAN : StartServerSettle(ok) /\ UNCHANGED aside
    \/ \E ok \in BOOLEAN : ConnectOnlySettle(ok) /\ UNCHANGED aside
    \/ \E r \in Req, path \in RoutePaths, takers \in RouteTakers :
          RouteArrive(r, path, takers)
    \/ \E r \in Req : HandlerRespond(r) /\ UNCHANGED aside
    \/ \E r \in Req, err \in Errors : HandlerRaise(r, err) /\ UNCHANGED aside

SpecRoute == InitRoute /\ [][NextRoute]_vars

-----------------------------------------------------------------------------
(* The directory set-up on every filesystem and configuration *)

Range(f) == {f[i] : i \in DOMAIN f}

Closure(ps) == UNION {Ancestors(q) : q \in ps}

InitStorage ==
    /\ rev \in StorageRevs
    /\ env \in {e \in Envs : e.MONGO_URI}
    /\ startup = "load"
    /\ listening = FALSE
    /\ exited = FALSE
    /\ isConnected = FALSE
    /\ readyState = 0
    /\ pending = {}
    /\ connString = "none"
    /\ calls = 0
    /\ lastError = "none"
    /\ req = [r \in {1} |-> NewReq]
    /\ offer = NoOffer
    /\ uploadBaseEnv \in Overrides
    /\ \E have \in SUBSET Range(AreaDirs(rev, env, uploadBaseEnv)) :
         disk = Closure({AppDir, TmpDir} \cup have)
    /\ denied \in SUBSET Range(AreaDirs(rev, env, uploadBaseEnv))
    /\ log = <<>>

NextStorage == createDirectories

SpecStorage == InitStorage /\ [][NextStorage]_vars

-----------------------------------------------------------------------------
(* Claims *)

Entered == {r \in Req : req[r].stage # "new"}

\* Whether the running revision registers a readiness gate.
HasGate == \E i \in 1..Len(Stack(rev, env)) : Stack(rev, env)[i] = "gate"

\* Whether startServer() is what the module runs at start-up.
Persistent == rev = "R2" \/ (rev \in {"R3", "R5"} /\ ~isProduction(env))

\* C1: callers of the connection routine that overlap from Disconnected, or
\* follow a success, cause exactly one mongoose.connect call in total: as
\* long as no attempt has failed, two or more callers mean one call.
C1_ExactlyOneAttempt ==
    (Cardinality(Entered) >= 2 /\ lastError = "none") => calls = 1

\* C2: no caller of the connection routine returns normally (the gate calls
\* next()) while the connection is still Connecting.
C2_NoReturnWhileConnecting ==
    \A r \in Req : req[r].stage = "passed" => ConnStatus # "Connecting"

\* C3: whenever a handler group (whatsapp, customers, attendance, reports
\* router) is running for a request, the connection is Connected.
C3_HandlerConnected ==
    \A r \in Req : req[r].stage = "handler" => ConnStatus = "Connected"

\* C4: the readiness gate runs before route dispatch and before the
\* not-found fallback: where a gate is registered, a request that a handler
\* group or the not-found fallback has taken has been through the gate.
C4_GateBeforeDispatch ==
    HasGate =>
        \A r \in Req : req[r].at \in Mounts \cup {"notFound"} => req[r].gated

\* C5: a failure is not cached: when the connection is Failed, the next
\* request that needs the database (one handed to a handler group) starts a
\* new connection attempt.
C5_RetryAfterFailed ==
    [][\A r \in Req :
         (ConnStatus = "Failed" /\ req[r].stage = "new"
            /\ req'[r].stage = "handler") => calls' > calls]_vars

\* C6: Connected is terminal: once the connection is Connected it stays so,
\* no further mongoose.connect call is made, and every later call of the
\* connection routine returns at once without error (the gate calls next()).
C6_ConnectedTerminal ==
    [][ConnStatus = "Connected" =>
         /\ ConnStatus' = "Connected"
         /\ calls' = calls
         /\ \A r \in Req : (req[r].stage = "new" /\ req'[r].stage # "new")
               => req'[r].stage = "passed"]_vars

\* C6 witness: R1 made one mongoose.connect call, and two requests have
\* passed the gate, the second after the flag was set.
C6_Witness ==
    /\ rev = "R1"
    /\ calls = 1
    /\ isConnected
    /\ req[1].stage = "passed" /\ req[2].stage = "passed"

\* C7: with MONGO_URI unset, every request that reaches the gate is answered
\* by the gate with HTTP 500 'Database connection failed', the process does
\* not exit, and the gate still takes the following request.
C7_UnsetUriAnswers500 ==
    ~env.MONGO_URI =>
        /\ \A r \in Entered :
              req[r].stage = "done" /\ req[r].at = "gate" /\ req[r].status = 500
        /\ ~exited
        /\ \A r \in Req : NextNew(r) => ENABLED GateCall(r)

\* C7 witness: with MONGO_URI unset, two requests in a row got the gate's 500.
C7_Witness ==
    /\ ~env.MONGO_URI
    /\ \A r \in {1, 2} : req[r].stage = "done" /\ req[r].status = 500
                           /\ req[r].at = "gate"

\* C8: when MONGO_URI is not configured, no connection to a default URI is
\* attempted.
C8_NoDefaultUri ==
    ~env.MONGO_URI => connString # "default"

\* C9: the process exits only on a start-up connection failure in persistent
\* mode: never when the platform signal says the context is ephemeral.
C9_ExitOnlyPersistent ==
    exited => (~Ephemeral(env) /\ startup = "exited" /\ lastError = "connect")

C11_NoListenEphemeral ==
    Ephemeral(env) => ~listening

\* The router that took request r, "none" when every router passed it on.
TakenBy(r) ==
    LET t == offer[r].tried
    IN  IF t # <<>> /\ t[Len(t)] \in offer[r].takers THEN t[Len(t)] ELSE "none"

IsLegacy(s) == s \in Legacy

\* Request r was dispatched and reached the route table: the cors
\* middleware did not answer it as a preflight ahead of every route.
Routed(r) == req[r].stage # "new" /\ "cors" \notin offer[r].takers

\* The legacy routers request r was handed to, in order.
LegacyTried(r) == SelectSeq(offer[r].tried, IsLegacy)

\* The place in LegacyOrder of the earliest legacy mount that handles the
\* request, the last place when none does.
FirstLegacy(takers) ==
    IF \E k \in 1..Len(LegacyOrder) : LegacyOrder[k] \in takers
    THEN CHOOSE k \in 1..Len(LegacyOrder) :
           /\ LegacyOrder[k] \in takers
           /\ \A j \in 1..(k - 1) : LegacyOrder[j] \notin takers
    ELSE Len(LegacyOrder)

\* C12: every canonical mount is registered before every legacy mount; a
\* request under a canonical prefix is handed to the canonical router first,
\* and reaches a legacy router only when the canonical one declined it.
C12_CanonicalFirst ==
    /\ \A c \in Canonical, l \in Legacy :
         Position(Stack(rev, env), c) < Position(Stack(rev, env), l)
    /\ \A r \in Req, c \in Canonical :
         (Routed(r) /\ IsPrefix(MountPrefix(c), req[r].path)) =>
            /\ offer[r].tried # <<>>
            /\ Head(offer[r].tried) = c
            /\ LegacyTried(r) # <<>> => c \notin offer[r].takers

\* A request for /api/whatsapp/status that both the canonical router and a
\* legacy router would handle was answered after the canonical one alone.
C12_Witness ==
    \E r \in Req :
        /\ req[r].stage = "done"
        /\ req[r].path = <<"api", "whatsapp", "status">>
        /\ {"whatsapp", "legacyCustomers"} \subseteq offer[r].takers
        /\ offer[r].tried = <<"whatsapp">>
        /\ req[r].at = "whatsapp"

\* C13: a request under /api that no canonical router answers is handed to
\* the legacy routers in the order customers, attendance, reports, up to and
\* including the earliest one that handles it; that one answers and the
\* later ones are not invoked.
C13_FirstRegisteredWins ==
    \A r \in Req :
        (/\ Routed(r)
         /\ IsPrefix(<<"api">>, req[r].path)
         /\ TakenBy(r) \notin Canonical) =>
            LET k == FirstLegacy(offer[r].takers)
            IN  /\ LegacyTried(r) = SubSeq(LegacyOrder, 1, k)
                /\ offer[r].takers \cap Legacy # {} => TakenBy(r) = LegacyOrder[k]
                /\ req[r].at \in Mounts => req[r].at = TakenBy(r)

\* A request that the attendance and the reports legacy routers would both
\* handle was answered by the attendance one.
C13_Witness ==
    \E r \in Req :
        /\ req[r].stage = "done"
        /\ req[r].status = 200
        /\ req[r].path = <<"api", "members">>
        /\ offer[r].takers \cap Legacy = {"legacyAttendance", "legacyReports"}
        /\ req[r].at = "legacyAttendance"
        /\ LegacyTried(r) = <<"legacyCustomers", "legacyAttendance">>

\* C14: a request whose handler raised an error is answered by the error
\* handler, with the error's status (500 when it has none) and a body of
\* exactly success, message and timestamp.
C14_UniformErrorShape ==
    \A r \in Req :
        (req[r].stage = "done" /\ req[r].err # "none") =>
            /\ req[r].at = "errorHandler"
            /\ req[r].status = (IF req[r].err = "s403" THEN 403 ELSE 500)
            /\ ErrorBody(rev, req[r].at) = {"success", "message", "timestamp"}

\* C15: a request no route answers gets 404 with a body that has an
\* availableRoutes list containing /health.
C15_NotFoundListsRoutes ==
    \A r \in Req :
        (req[r].stage = "done" /\ req[r].at \in {"notFound", "finalhandler"}
           /\ req[r].err = "none") =>
            /\ req[r].status = 404
            /\ "success" \in ErrorBody(rev, req[r].at)
            /\ "availableRoutes" \in ErrorBody(rev, req[r].at)
            /\ "/health" \in availableRoutes(rev)

\* C16: every request for /health the process accepted was answered by the
\* health route with 200 and status OK, whatever the connection state.
C16_HealthAlwaysOK ==
    \A r \in Req :
        (req[r].stage # "new" /\ req[r].path = <<"health">>) =>
            /\ req[r].stage = "done"
            /\ req[r].at = "health"
            /\ req[r].status = 200
            /\ HealthStatus(req[r].at) = "OK"

\* /health was answered with 200 after the connection attempt had failed.
C16_Witness ==
    /\ ConnStatus = "Failed"
    /\ \E r \in Req :
         /\ req[r].path = <<"health">>
         /\ req[r].stage = "done"
         /\ req[r].status = 200
         /\ \A q \in Req : q < r => req[q].path # <<"health">>

\* C17: the resolved storage root is the override, resolved to an absolute
\* path, when one is set; otherwise it lies under the temporary-storage area
\* when the platform signal is present and under the application's own
\* directory when it is absent.
C17_StorageRoot ==
    LET root == storageRoot(rev, env, uploadBaseEnv)
    IN  IF uploadBaseEnv.set THEN root = resolve(uploadBaseEnv)
        ELSE IF Ephemeral(env) THEN IsPrefix(TmpDir, root)
        ELSE IsPrefix(AppDir, root)

\* C18: every directory the set-up checks or makes, and the directory
\* served at /uploads, lies under the resolved storage root.
C18_AreasUnderRoot ==
    LET root == storageRoot(rev, env, uploadBaseEnv)
    IN  /\ \A p \in Range(AreaDirs(rev, env, uploadBaseEnv)) : IsPrefix(root, p)
        /\ StaticMounted(rev, env) =>
              IsPrefix(root, staticUploadsPath(rev, env, uploadBaseEnv))

\* C19: a run of the set-up raises nothing and checks every area, also
\* after the creation of an earlier area failed.
C19_EachAreaGuarded ==
    \A k \in 1..Len(log) :
        /\ ~log[k].raised
        /\ log[k].checked = Range(AreaDirs(rev, env, uploadBaseEnv))

\* C20: a second run of the set-up on the filesystem the first run left
\* raises nothing, makes no directory that already existed and leaves the
\* directories that were there after the first run.
C20_Idempotent ==
    \A k \in 2..Len(log) :
        /\ ~log[k].raised
        /\ log[k].before = log[k - 1].after
        /\ log[k].made \cap log[k].before = {}
        /\ log[k].after = log[k - 1].after

\* The first run made a directory and failed on another; a second run
\* followed.
C20_Witness ==
    /\ Len(log) = 2
    /\ log[1].made # {}
    /\ log[1].warned # {}
    /\ log[1].after # log[1].before

\* C21: the logging middleware ran for every request the app was handed,
\* also for one an earlier stage answered, and it answered none itself.
C21_EveryRequestLogged ==
    \A r \in Req :
        req[r].stage # "new" => (offer[r].logged /\ req[r].at # "log")

\* C22: with every connection attempt settling and the event loop fair, a
\* request that entered the readiness gate is eventually passed on or
\* answered 500 by the gate.
C22_GateTerminates ==
    \A r \in 1..MaxCallers :
        (req[r].gated) ~>
            \/ req[r].stage = "passed"
            \/ /\ req[r].stage = "done"
               /\ req[r].at = "gate"
               /\ req[r].status = 500

\* Two requests waited in the gate on their own connection attempts; one
\* was passed on and the other answered 500.
C22_Witness ==
    \E r, q \in Req :
        /\ req[r].gated /\ req[r].stage = "passed"
        /\ req[q].gated /\ req[q].stage = "done" /\ req[q].status = 500
        /\ lastError = "connect"
        /\ calls >= 2

AttemptFailed ==
    \E r \in DOMAIN req :
        /\ req[r].stage # "done"
        /\ req'[r].stage = "done"
        /\ req'[r].at = "gate"

\* A step in which an awaited mongoose.connect resolves successfully.
AttemptResolved ==
    \E r \in pending :
        /\ r \notin pending'
        /\ readyState' = 1
        /\ req'[r].stage = "passed"

\* C24: isConnected is false initially, becomes true only in a step in
\* which a mongoose.connect attempt resolves successfully, is left as it
\* was by a failed attempt, and is never set back to false.
C24_FlagOnlyAfterSuccess ==
    /\ ~isConnected
    /\ [][/\ (~isConnected /\ isConnected') => AttemptResolved
          /\ AttemptFailed => isConnected' = isConnected
          /\ isConnected => isConnected']_vars

\* R1's flag is set, after an attempt that failed on a rejected connect.
C24_Witness ==
    /\ rev = "R1"
    /\ isConnected
    /\ lastError = "connect"
    /\ \E r \in Req : req[r].stage = "done" /\ req[r].at = "gate"

====
